---- MODULE Spec2Model ----
(***************************************************************************)
(* Background-removal API of studyocepte-api.                              *)
(*                                                                         *)
(* One HTTP request to /image/remove-background/single/ or                 *)
(* /image/remove-background/batch/ travels through                         *)
(*   RateLimitMiddleware.dispatch        (middleware/rate_limiter.py)      *)
(*   remove_background_single / _batch   (routes/image_processing.py)      *)
(*   process_and_store / process_single_image, one asyncio task per file   *)
(* and consults SecurityService (middleware/security.py) for the rate      *)
(* limit and for the per-file security validation.                         *)
(***************************************************************************)
EXTENDS Integers, Sequences, FiniteSets, TLC

\* ------------------------------------------------------------------ bounds
\* Largest number of uploaded files in one batch request.
MaxFiles == 3
\* Largest number of photo ids given to one batch operation.
MaxPhotos == 2
\* Largest number of calls of the /batch routes in one run.
MaxCalls == 2
\* Last second of the clock read by start_batch_operation.
MaxClock == 1
\* Width and height, in pixels, of the masks given to the mask pipeline.
MaskWidth == 28
MaskHeight == 20
\* Largest number of runs of the mask pipeline on one input.
MaxRuns == 2

\* --------------------------------------------------------- program constants
\* SecurityService.__init__: self.max_file_size = 50 * 1024 * 1024
max_file_size == 50 * 1024 * 1024
\* SecurityService.__init__: self.max_requests_per_minute
UploadLimit == 50
ProcessLimit == 30
ListLimit == 200
DetailLimit == 120
\* is_rate_limited: self.max_requests_per_minute.get(endpoint_type, 100)
DefaultLimit == 100
\* is_rate_limited: current_time - rate_limit_storage[client_ip][0] > 60
WindowSeconds == 60
\* _record_failed_attempt: timedelta(hours=1), in seconds
FailedAttemptSeconds == 3600
\* _record_failed_attempt: len(failed_attempts[client_ip]) > 50
BlockThreshold == 50
\* _validate_image_headers: len(file_content) < 10
MinHeaderBytes == 10

\* ------------------------------------------------------------ uploaded files
\* Filenames a client may give to an uploaded part (a client may repeat one).
Names == {"a.png", "b.jpg"}

\* The byte contents a client may upload, named: two images, an HTML page and
\* a PNG header followed by garbage. The operators below give what the
\* validator and the pipeline observe of each.
Contents == {"imgA", "imgB", "html", "corrupt"}

\* len(file_content)
SizeOf(c) == 2048

\* magic.from_buffer(file_content, mime=True)
MagicMime(c) ==
    CASE c = "imgA" -> "image/png"
      [] c = "imgB" -> "image/jpeg"
      [] c = "html" -> "text/html"
      [] c = "corrupt" -> "image/png"

\* magic.from_buffer raising (the validator then falls back on the filename)
MagicRaises(c) == FALSE

\* '<script', 'javascript:', ... within the first 5 KB of the content
HasDangerousPattern(c) == FALSE

\* the content starts with the signature of its MIME type
HasImageSignature(c) == c \in {"imgA", "imgB", "corrupt"}

\* b'<?php', b'<script>', ... within the first 10 KB of the content
HasDangerousMetadata(c) == FALSE

\* the image data behind the header can be decoded by PIL / the model
Decodable(c) == c \in {"imgA", "imgB"}


\* ---------------------------------------------------------------- messages
\* A message text with its one format argument ("" when it has none).
Msg(text, arg) == [text |-> text, arg |-> arg]

\* Messages.get("file_processing_error", lang, filename=file.filename)
FileProcessingErrorMessage(filename) == Msg("file_processing_error", filename)

\* ------------------------------------------------- SecurityService: validation
allowed_image_types ==
    {"image/jpeg", "image/png", "image/webp", "image/bmp", "image/tiff"}

\* os.path.splitext(filename)[1].lower() looked up in mime_map
GuessMimeType(filename) ==
    CASE filename = "a.png" -> "image/png"
      [] filename = "b.jpg" -> "image/jpeg"
      [] OTHER -> "application/octet-stream"

ContainsSuspiciousContent(c) == HasDangerousPattern(c)

ValidateImageHeaders(c, mime_type) ==
    IF SizeOf(c) < MinHeaderBytes THEN FALSE
    ELSE IF mime_type \notin allowed_image_types THEN TRUE
    ELSE HasImageSignature(c)

ContainsDangerousMetadata(c) == HasDangerousMetadata(c)

ValidateFileSecurity(c, filename) ==
    IF SizeOf(c) > max_file_size
    THEN [ok |-> FALSE, message |-> Msg("File too large", "")]
    ELSE LET mime_type == IF MagicRaises(c) THEN GuessMimeType(filename)
                          ELSE MagicMime(c)
         IN  IF mime_type \notin allowed_image_types
             THEN [ok |-> FALSE, message |-> Msg("Invalid file type", mime_type)]
             ELSE IF ContainsSuspiciousContent(c)
             THEN [ok |-> FALSE,
                   message |-> Msg("Suspicious content detected in file", "")]
             ELSE IF ~ValidateImageHeaders(c, mime_type)
             THEN [ok |-> FALSE,
                   message |-> Msg("Invalid or corrupted image file", "")]
             ELSE IF ContainsDangerousMetadata(c)
             THEN [ok |-> FALSE,
                   message |-> Msg("Potentially dangerous content detected", "")]
             ELSE [ok |-> TRUE, message |-> Msg("File validation passed", "")]

\* ----------------------------------------------- SecurityService: rate limit
\* The two SecurityService objects: middleware.security.security_service, used
\* by RateLimitMiddleware, and routes.image_processing.security_service.
Instances == {"middleware", "route"}

LimitFor(endpoint_type) ==
    CASE endpoint_type = "upload" -> UploadLimit
      [] endpoint_type = "process" -> ProcessLimit
      [] endpoint_type = "list" -> ListLimit
      [] endpoint_type = "detail" -> DetailLimit
      [] OTHER -> DefaultLimit

\* Variant: an entry is dropped as soon as it is a full window old.
RECURSIVE PruneOld_Inclusive(_, _)
PruneOld_Inclusive(window, current_time) ==
    IF window # <<>> /\ current_time - Head(window) >= WindowSeconds
    THEN PruneOld_Inclusive(Tail(window), current_time)
    ELSE window

\* while window and current_time - window[0] > 60: window.popleft()
RECURSIVE PruneOld(_, _)
PruneOld(window, current_time) ==
    IF window # <<>> /\ current_time - Head(window) > WindowSeconds
    THEN PruneOld(Tail(window), current_time)
    ELSE window

\* failed_attempts[client_ip] after _record_failed_attempt at current_time
RecordFailedAttempt(failed, current_time) ==
    SelectSeq(Append(failed, current_time),
              LAMBDA ts : current_time - ts < FailedAttemptSeconds)

\* Variant: a rejected request is entered in the window as well.
IsRateLimited_CountsRejected(instance, endpoint_type, storage, failed, blocked, current_time) ==
    IF instance \in blocked
    THEN [limited |-> TRUE, storage |-> storage, failed |-> failed,
          blocked |-> blocked]
    ELSE LET window == PruneOld(storage, current_time)
             attempts == RecordFailedAttempt(failed, current_time)
         IN  IF Len(window) >= LimitFor(endpoint_type)
             THEN [limited |-> TRUE, storage |-> Append(window, current_time),
                   failed |-> attempts,
                   blocked |-> IF Len(attempts) > BlockThreshold
                               THEN blocked \cup {instance} ELSE blocked]
             ELSE [limited |-> FALSE, storage |-> Append(window, current_time),
                   failed |-> failed, blocked |-> blocked]

\* Variant: a call for a blocked address still works on the window.
IsRateLimited_BlockedStillCounts(instance, endpoint_type, storage, failed, blocked, current_time) ==
    LET window == PruneOld(storage, current_time)
        attempts == RecordFailedAttempt(failed, current_time)
    IN  IF instance \in blocked
        THEN [limited |-> TRUE, storage |-> window, failed |-> failed,
              blocked |-> blocked]
        ELSE IF Len(window) >= LimitFor(endpoint_type)
        THEN [limited |-> TRUE, storage |-> window, failed |-> attempts,
              blocked |-> IF Len(attempts) > BlockThreshold
                          THEN blocked \cup {instance} ELSE blocked]
        ELSE [limited |-> FALSE, storage |-> Append(window, current_time),
              failed |-> failed, blocked |-> blocked]

\* is_rate_limited(request, endpoint_type) on one SecurityService instance:
\* the verdict and the limiter state it leaves.
IsRateLimited(instance, endpoint_type, storage, failed, blocked, current_time) ==
    IF instance \in blocked
    THEN [limited |-> TRUE, storage |-> storage, failed |-> failed,
          blocked |-> blocked]
    ELSE LET window == PruneOld(storage, current_time)
             attempts == RecordFailedAttempt(failed, current_time)
         IN  IF Len(window) >= LimitFor(endpoint_type)
             THEN [limited |-> TRUE, storage |-> window, failed |-> attempts,
                   blocked |-> IF Len(attempts) > BlockThreshold
                               THEN blocked \cup {instance} ELSE blocked]
             ELSE [limited |-> FALSE, storage |-> Append(window, current_time),
                   failed |-> failed, blocked |-> blocked]

\* ------------------------------------------------------ RateLimitMiddleware
\* request.url.path of the two routes, as its segments.
PathOf(ep) ==
    [segments |-> <<"image", "remove-background", ep>>, trailing_slash |-> TRUE]

\* '/x' in path, for a path built of the segments above
PathHas(path, segment) ==
    \E k \in 1..Len(path.segments) : path.segments[k] = segment

GetEndpointType(path) ==
    IF PathHas(path, "upload") \/ PathHas(path, "photos") THEN "upload"
    ELSE IF PathHas(path, "process") \/ PathHas(path, "batch") THEN "process"
    ELSE IF path.trailing_slash THEN "list"
    ELSE "detail"

\* ------------------------------------------------------------------- state
VARIABLES
    endpoint,            \* "single" or "batch": the route the request is for
    files,               \* the uploaded files, [filename, content] each
    phase,               \* "arrived", "handler", "gather", "responded"
    pc,                  \* per file: received, validating, processing, ...
    stage,               \* per file in processing: "body", "detail", "compose"
    running,             \* the file whose task holds the event loop, 0 if none
    validator_calls,     \* per file: calls of validate_file_security
    session_calls,       \* per file: the passes asked of REMBG_SESSION
    processed,           \* per file: what process_single_image returned
    success,             \* results["success"]: filename -> entry
    errors,              \* results["errors"]: filename -> entry
    pending_exc,         \* the exception raised into the handler, if any
    limited,             \* which is_rate_limited call returned True
    response,            \* the HTTP response, status 0 while there is none
    rate_limit_storage,  \* rate_limit_storage[client_ip]
    failed_attempts,     \* failed_attempts[client_ip]
    blocked_ips,         \* the instances whose blocked_ips hold client_ip
    now,                 \* time.time()
    session_ok,          \* REMBG_SESSION can run inference
    REMBG_SESSION,       \* the module's global: the session object it names
    sessions_used,       \* the session objects given to remove() so far
    record_order,        \* whether the order of completion is being recorded
    finished,            \* the files in the order their tasks completed
    active_operations,   \* batch_manager.active_operations: batch_id -> dict
    ready_tasks,         \* the _process_batch tasks created and not yet begun
    current,             \* the _process_batch task that holds the event loop
    clock,               \* datetime.now(), in whole seconds
    reply,               \* what the last call of a /batch route returned
    cancelled_at,        \* per batch_id: photos handled when cancel returned True
    calls,               \* the calls of the /batch routes so far
    starts,              \* the calls of start_batch_operation that returned
    source,              \* the image that Image.open(file_content) gives
    body_mask,           \* body_mask, the "L" image of the body pass
    details_mask,        \* details_mask, the "L" image of the detail pass
    mask_pc,             \* how far process_single_image is behind the passes
    combined_array,      \* combined_array, <<>> while unset
    cleaned_array,       \* cleaned_array, <<>> while unset
    filled_array,        \* filled_array, <<>> while unset
    final_mask,          \* final_mask, <<>> while unset
    result,              \* what apply_mask_to_image returned or raised
    outputs,             \* the results of the runs completed on this input
    admitted,            \* <<endpoint type, time>> -> calls that returned False
    called_types,        \* the endpoint types is_rate_limited was called with
    sent_kinds,          \* the kinds of request the client has sent
    sent,                \* the number of requests the client has sent
    answered,            \* per kind: the requests no rate limit rejected
    first_rejection,     \* `answered` when a request was first rejected
    last_call,           \* the last call of is_rate_limited or unblock_ip
    call_count,          \* the calls of is_rate_limited so far
    in_handler,          \* the requests between the middleware and the handler
    steps                \* the steps the client took after its first burst

vars == <<endpoint, files, phase, pc, stage, running, validator_calls,
          session_calls, processed, success, errors, pending_exc, limited,
          response, rate_limit_storage, failed_attempts, blocked_ips, now,
          session_ok, REMBG_SESSION, sessions_used, record_order, finished,
          active_operations,
          ready_tasks, current, clock, reply, cancelled_at, calls, starts,
          source,
          body_mask, details_mask, mask_pc, combined_array, cleaned_array,
          filled_array, final_mask, result, outputs, admitted,
          called_types, sent_kinds, sent, answered, first_rejection,
          last_call, call_count, in_handler, steps>>

request_vars == <<endpoint, files, now, session_ok, REMBG_SESSION>>
limiter_vars == <<rate_limit_storage, failed_attempts, blocked_ips>>
task_vars == <<pc, stage, running, validator_calls, session_calls, processed,
               success, errors, pending_exc, finished, sessions_used>>

\* The state of one image request.
image_vars == <<request_vars, limiter_vars, task_vars, phase, limited, response,
                record_order>>

\* The state of batch_manager and of the tasks it created.
operation_vars == <<active_operations, ready_tasks, current, clock, reply,
                    cancelled_at, calls, starts>>

\* The state of the mask pipeline of one file.
mask_vars == <<source, body_mask, details_mask, mask_pc, combined_array,
               cleaned_array, filled_array, final_mask, result, outputs>>

\* What is recorded of the client's requests and of the limiter's calls.
traffic_vars == <<admitted, called_types, sent_kinds, sent, answered,
                  first_rejection, last_call, call_count, in_handler, steps>>

\* What no step of an image request changes.
other_vars == <<record_order, operation_vars, mask_vars, traffic_vars>>

FileIds == 1..Len(files)

Terminal == {"rejected", "succeeded", "failed"}

\* Variant: the assignment replaces the dict by one holding the new key only.
Put_Replace(map, key, value) == [k \in {key} |-> value]

\* dict[key] = value
Put(map, key, value) ==
    [k \in DOMAIN map \cup {key} |-> IF k = key THEN value ELSE map[k]]

EmptyMap == [k \in {} |-> 0]

\* No batch operation has been started on batch_manager.
NoOperations ==
    /\ active_operations = EmptyMap
    /\ ready_tasks = <<>>
    /\ current = <<>>
    /\ clock = 0
    /\ reply = [status |-> 0, body |-> <<>>]
    /\ cancelled_at = EmptyMap
    /\ calls = 0
    /\ starts = 0

\* Kinds of request, by the path they are for and the checks they reach.
RequestKinds == {"batch", "single", "upload", "list", "detail"}

\* The client has sent nothing and is_rate_limited has not been called.
NoTraffic ==
    /\ admitted = EmptyMap
    /\ called_types = {}
    /\ sent_kinds = {}
    /\ sent = 0
    /\ answered = [kind \in RequestKinds |-> 0]
    /\ first_rejection = <<>>
    /\ last_call = <<>>
    /\ call_count = 0
    /\ in_handler = <<>>
    /\ steps = 0

\* No file is in the mask pipeline.
NoMaskPipeline ==
    /\ source = <<>>
    /\ body_mask = <<>>
    /\ details_mask = <<>>
    /\ mask_pc = "idle"
    /\ combined_array = <<>>
    /\ cleaned_array = <<>>
    /\ filled_array = <<>>
    /\ final_mask = <<>>
    /\ result = <<>>
    /\ outputs = <<>>

NoResponse == [status |-> 0, code |-> "none", statistics |-> <<>>, data |-> <<>>]

\* ErrorHandler.create_error_response(message_key, status_code)
ErrorResponse(status_code, message_key) ==
    [status |-> status_code, code |-> message_key, statistics |-> <<>>,
     data |-> <<>>]

\* --------------------------------------------------------------- the pipeline
\* new_session(model_name): a session object; `object` tells apart the
\* objects that separate calls of new_session create.
NewSession(model_name, object) == [model |-> model_name, object |-> object]

\* Variant: each call of remove is given a session that is loaded for it.
SessionArgument_Reloaded(global_session) ==
    NewSession(global_session.model,
               global_session.object + 1 + Cardinality(sessions_used))

\* remove(..., session=REMBG_SESSION, ...): the session object the call gets
SessionArgument(global_session) == global_session

\* remove(file_content, session=REMBG_SESSION, only_mask=True, ...): the
\* exception it raises, <<>> when it returns a mask.
RemoveRaises(c, ok) ==
    IF ~ok
    THEN <<[type |-> "RuntimeError", msg |-> Msg("inference session failed", "")]>>
    ELSE IF ~Decodable(c)
    THEN <<[type |-> "UnidentifiedImageError",
            msg |-> Msg("cannot identify image file", "")]>>
    ELSE <<>>

\* apply_mask_to_image(file_content, final_mask): the PNG the pipeline returns
\* for content c, the image's colours under the combined mask of its two passes.
ProcessedImage(c) == [format |-> "PNG", rgb |-> c, alpha |-> <<"body", "detail">>]

\* base64.b64encode(processed_bytes).decode('utf-8')
B64Encode(bytes) == [b64 |-> bytes]

\* Variant: the clause written as "except ValueError".
CaughtByExceptException_ValueErrorOnly(exc_type) == exc_type = "ValueError"

\* except Exception: the exception classes the clause catches
CaughtByExceptException(exc_type) ==
    exc_type \in {"ValueError", "RuntimeError", "UnidentifiedImageError"}


\* Variant: process_and_store without its try/except.
CaughtByProcessAndStore_Nothing(exc_type) == FALSE

\* Variant: process_and_store letting the inference runtime's error through.
CaughtByProcessAndStore_NotRuntime(exc_type) ==
    CaughtByExceptException(exc_type) /\ exc_type # "RuntimeError"

\* process_and_store: "except Exception as e" around process_single_image
CaughtByProcessAndStore(exc_type) == CaughtByExceptException(exc_type)

\* Variant: the handler without its empty-list check.
NoFilesProvided_Never(fs) == FALSE

\* remove_background_batch: "if not files"
NoFilesProvided(fs) == fs = <<>>

\* Variant: the handler logging the rate-limit event without raising.
RejectWhenLimited_Ignored(verdict) == FALSE

\* "if security_service.is_rate_limited(request, 'process'): ... raise APIError"
RejectWhenLimited(verdict) == verdict

\* Variant: a file that fails validation is queued again.
PcAfterValidation_Retry(is_valid) ==
    IF is_valid THEN "processing" ELSE "received"

\* Variant: the verdict of the validator is not looked at.
PcAfterValidation_Unchecked(is_valid) == "processing"

\* process_single_image: "if not is_valid: raise ValueError(validation_message)"
PcAfterValidation(is_valid) == IF is_valid THEN "processing" ELSE "rejected"

\* ------------------------------------------------------------------- Init
Zeros(n) == [k \in 1..n |-> 0]

\* States the limiter is left in by earlier requests of the same client:
\* untouched; one slot of the 'process' quota left; the quota used up; the
\* quota used up a minute ago; one rejection short of a block; blocked by the
\* middleware's instance; blocked by the route's instance a minute ago.
LimiterSnapshots ==
    { [storage |-> <<>>, failed |-> <<>>, blocked |-> {}, now |-> 0],
      [storage |-> Zeros(ProcessLimit - 1), failed |-> <<>>, blocked |-> {},
       now |-> 0],
      [storage |-> Zeros(ProcessLimit), failed |-> <<>>, blocked |-> {},
       now |-> 0],
      [storage |-> Zeros(ProcessLimit), failed |-> <<>>, blocked |-> {},
       now |-> WindowSeconds + 1],
      [storage |-> Zeros(ProcessLimit), failed |-> Zeros(BlockThreshold),
       blocked |-> {}, now |-> 0],
      [storage |-> Zeros(ProcessLimit), failed |-> Zeros(BlockThreshold + 1),
       blocked |-> {"middleware"}, now |-> 0],
      [storage |-> Zeros(ProcessLimit), failed |-> Zeros(BlockThreshold + 1),
       blocked |-> {"route"}, now |-> WindowSeconds + 1] }

\* The request has arrived and none of its files is touched yet.
Untouched ==
    /\ phase = "arrived"
    /\ pc = [i \in FileIds |-> "received"]
    /\ stage = [i \in FileIds |-> "-"]
    /\ running = 0
    /\ validator_calls = [i \in FileIds |-> 0]
    /\ session_calls = [i \in FileIds |-> <<>>]
    /\ processed = [i \in FileIds |-> <<>>]
    /\ success = EmptyMap
    /\ errors = EmptyMap
    /\ pending_exc = <<>>
    /\ limited = "none"
    /\ response = NoResponse
    /\ finished = <<>>
    /\ REMBG_SESSION = NewSession("isnet-general-use", 1)
    /\ sessions_used = {}

UploadFiles == [filename : Names, content : Contents]

FileLists == UNION { [1..n -> UploadFiles] : n \in 0..MaxFiles }

Init ==
    /\ endpoint \in {"single", "batch"}
    /\ files \in FileLists
    /\ endpoint = "single" => Len(files) = 1
    /\ session_ok \in BOOLEAN
    /\ \E snap \in LimiterSnapshots :
          \* a failing session is explored with the untouched limiter only
          /\ session_ok \/ snap.storage = <<>>
          /\ rate_limit_storage = snap.storage
          /\ failed_attempts = snap.failed
          /\ blocked_ips = snap.blocked
          /\ now = snap.now
    /\ Untouched
    /\ record_order = FALSE
    /\ NoOperations
    /\ NoMaskPipeline
    /\ NoTraffic

\* ---------------------------------------------------------------- OrderSpec
\* The same request handling with the order of completion recorded, for
\* batches whose filenames are pairwise distinct.
OrderNames == Names \cup {"c.png"}

DistinctFileLists ==
    { fs \in UNION { [1..n -> [filename : OrderNames, content : Contents]] :
                        n \in 0..MaxFiles } :
        \A i, j \in 1..Len(fs) : i # j => fs[i].filename # fs[j].filename }

OrderInit ==
    /\ endpoint = "batch"
    /\ files \in DistinctFileLists
    /\ session_ok \in BOOLEAN
    /\ rate_limit_storage = <<>>
    /\ failed_attempts = <<>>
    /\ blocked_ips = {}
    /\ now = 0
    /\ Untouched
    /\ record_order = TRUE
    /\ NoOperations
    /\ NoMaskPipeline
    /\ NoTraffic
    /\ finished = <<>>

\* --------------------------------------------------------------- actions
\* RateLimitMiddleware.dispatch
Dispatch ==
    /\ phase = "arrived"
    /\ LET r == IsRateLimited("middleware", GetEndpointType(PathOf(endpoint)),
                              rate_limit_storage, failed_attempts, blocked_ips,
                              now)
       IN  /\ rate_limit_storage' = r.storage
           /\ failed_attempts' = r.failed
           /\ blocked_ips' = r.blocked
           /\ IF r.limited
              THEN /\ phase' = "responded"
                   /\ limited' = "middleware"
                   /\ response' = ErrorResponse(429, "rate_limit_exceeded")
              ELSE /\ phase' = "handler"
                   /\ UNCHANGED <<limited, response>>
    /\ UNCHANGED <<request_vars, other_vars, task_vars>>

\* remove_background_single / remove_background_batch, up to the first await
HandlerEntry ==
    /\ phase = "handler"
    /\ IF NoFilesProvided(files)
       THEN /\ phase' = "responded"
            /\ response' = ErrorResponse(400, "no_files_provided")
            /\ UNCHANGED <<limited, limiter_vars>>
       ELSE LET r == IsRateLimited("route", "process", rate_limit_storage,
                                   failed_attempts, blocked_ips, now)
            IN  /\ rate_limit_storage' = r.storage
                /\ failed_attempts' = r.failed
                /\ blocked_ips' = r.blocked
                /\ limited' = IF r.limited THEN "handler" ELSE limited
                /\ IF RejectWhenLimited(r.limited)
                   THEN /\ phase' = "responded"
                        /\ response' = ErrorResponse(429, "rate_limit_exceeded")
                   ELSE /\ phase' = "gather"
                        /\ UNCHANGED response
    /\ UNCHANGED <<request_vars, other_vars, task_vars>>

\* Variant: a pass of the session that raises is asked for again.
RaiseInTask_RetryPass(i, exc, terminal_pc) ==
    IF terminal_pc = "failed"
    THEN UNCHANGED <<pc, stage, running, finished, errors, pending_exc>>
    ELSE /\ pc' = [pc EXCEPT ![i] = terminal_pc]
         /\ stage' = [stage EXCEPT ![i] = "-"]
         /\ running' = 0
         /\ finished' = IF record_order THEN Append(finished, i) ELSE finished
         /\ IF endpoint = "batch" /\ CaughtByProcessAndStore(exc.type)
            THEN /\ errors' = Put(errors, files[i].filename,
                                  [error |-> exc.msg,
                                   message |-> FileProcessingErrorMessage(
                                                   files[i].filename)])
                 /\ UNCHANGED pending_exc
            ELSE /\ pending_exc' =
                       IF pending_exc = <<>> THEN <<exc>> ELSE pending_exc
                 /\ UNCHANGED errors

\* An exception leaves process_single_image for file i: process_and_store
\* records it (batch), or it reaches the handler's own except clause.
RaiseInTask(i, exc, terminal_pc) ==
    /\ pc' = [pc EXCEPT ![i] = terminal_pc]
    /\ stage' = [stage EXCEPT ![i] = "-"]
    /\ running' = 0
    /\ finished' = IF record_order THEN Append(finished, i) ELSE finished
    /\ IF endpoint = "batch" /\ CaughtByProcessAndStore(exc.type)
       THEN /\ errors' = Put(errors, files[i].filename,
                             [error |-> exc.msg,
                              message |-> FileProcessingErrorMessage(
                                              files[i].filename)])
            /\ UNCHANGED pending_exc
       ELSE /\ pending_exc' = IF pending_exc = <<>> THEN <<exc>> ELSE pending_exc
            /\ UNCHANGED errors

\* process_single_image: "file_content = await file.read()" returns
ReadFile(i) ==
    /\ phase = "gather"
    /\ running = 0
    /\ pc[i] = "received"
    /\ pc' = [pc EXCEPT ![i] = "validating"]
    /\ running' = i
    /\ UNCHANGED <<request_vars, other_vars, limiter_vars, phase, stage, validator_calls,
                   session_calls, processed, success, errors, pending_exc,
                   finished, limited, response, sessions_used>>

\* process_single_image: validate_file_security and the check of its verdict
Validate(i) ==
    /\ phase = "gather"
    /\ running = i
    /\ pc[i] = "validating"
    /\ validator_calls' = [validator_calls EXCEPT ![i] = @ + 1]
    /\ LET v == ValidateFileSecurity(files[i].content, files[i].filename)
           next_pc == PcAfterValidation(v.ok)
       IN  IF next_pc = "processing"
           THEN /\ pc' = [pc EXCEPT ![i] = "processing"]
                /\ stage' = [stage EXCEPT ![i] = "body"]
                /\ UNCHANGED <<running, errors, pending_exc, finished>>
           ELSE RaiseInTask(i, [type |-> "ValueError", msg |-> v.message],
                            next_pc)
    /\ UNCHANGED <<request_vars, other_vars, limiter_vars, phase, session_calls, processed,
                   success, limited, response, sessions_used>>

\* process_single_image: the body pass, remove(..., alpha_matting=False)
BodyPass(i) ==
    /\ phase = "gather"
    /\ running = i
    /\ pc[i] = "processing"
    /\ stage[i] = "body"
    /\ session_calls' = [session_calls EXCEPT ![i] = Append(@, "body")]
    /\ sessions_used' = sessions_used \cup {SessionArgument(REMBG_SESSION)}
    /\ LET raised == RemoveRaises(files[i].content, session_ok)
       IN  IF raised = <<>>
           THEN /\ stage' = [stage EXCEPT ![i] = "detail"]
                /\ UNCHANGED <<pc, running, errors, pending_exc, finished>>
           ELSE RaiseInTask(i, raised[1], "failed")
    /\ UNCHANGED <<request_vars, other_vars, limiter_vars, phase, validator_calls,
                   processed, success, limited, response>>

\* process_single_image: the detail pass, remove(..., alpha_matting=True)
DetailPass(i) ==
    /\ phase = "gather"
    /\ running = i
    /\ pc[i] = "processing"
    /\ stage[i] = "detail"
    /\ session_calls' = [session_calls EXCEPT ![i] = Append(@, "detail")]
    /\ sessions_used' = sessions_used \cup {SessionArgument(REMBG_SESSION)}
    /\ LET raised == RemoveRaises(files[i].content, session_ok)
       IN  IF raised = <<>>
           THEN /\ stage' = [stage EXCEPT ![i] = "compose"]
                /\ UNCHANGED <<pc, running, errors, pending_exc, finished>>
           ELSE RaiseInTask(i, raised[1], "failed")
    /\ UNCHANGED <<request_vars, other_vars, limiter_vars, phase, validator_calls,
                   processed, success, limited, response>>

\* process_single_image: combine and clean the masks, apply_mask_to_image and
\* return; process_and_store: encode the bytes and store them under the filename
Compose(i) ==
    /\ phase = "gather"
    /\ running = i
    /\ pc[i] = "processing"
    /\ stage[i] = "compose"
    /\ pc' = [pc EXCEPT ![i] = "succeeded"]
    /\ stage' = [stage EXCEPT ![i] = "-"]
    /\ running' = 0
    /\ finished' = IF record_order THEN Append(finished, i) ELSE finished
    /\ processed' = [processed EXCEPT
                       ![i] = <<ProcessedImage(files[i].content)>>]
    /\ success' = IF endpoint = "batch"
                  THEN Put(success, files[i].filename,
                           [data |-> B64Encode(ProcessedImage(files[i].content)),
                            format |-> "PNG"])
                  ELSE success
    /\ UNCHANGED <<request_vars, other_vars, limiter_vars, phase, validator_calls,
                   session_calls, errors, pending_exc, limited, response,
                   sessions_used>>

\* the handler after "await asyncio.gather(...)" / "await process_single_image":
\* the response, or the handler's "except Exception" -> APIError 500
Respond ==
    /\ phase = "gather"
    /\ running = 0
    /\ pending_exc # <<>> \/ \A i \in FileIds : pc[i] \in Terminal
    /\ phase' = "responded"
    /\ response' =
         IF pending_exc # <<>>
         THEN ErrorResponse(500, "image_processing_error")
         ELSE IF endpoint = "batch"
         THEN [status |-> 200, code |-> "batch_processing_completed",
               statistics |-> <<[total_files |-> Len(files),
                                 successful |-> Cardinality(DOMAIN success),
                                 failed |-> Cardinality(DOMAIN errors)]>>,
               data |-> <<[success |-> success, errors |-> errors]>>]
         ELSE [status |-> 200, code |-> "image_processing_completed",
               statistics |-> <<>>,
               data |-> <<[processed_image |-> B64Encode(processed[1][1]),
                           filename |-> files[1].filename,
                           format |-> "PNG"]>>]
    /\ UNCHANGED <<request_vars, other_vars, limiter_vars, task_vars, limited>>

Next ==
    \/ Dispatch
    \/ HandlerEntry
    \/ \E i \in FileIds : ReadFile(i)
    \/ \E i \in FileIds : Validate(i)
    \/ \E i \in FileIds : BodyPass(i)
    \/ \E i \in FileIds : DetailPass(i)
    \/ \E i \in FileIds : Compose(i)
    \/ Respond

Spec == Init /\ [][Next]_vars

\* The server and the event loop run whatever is ready to run.
FairSpec == Spec /\ WF_vars(Next)

\* A batch of distinctly named files, its order of completion recorded.
OrderSpec == OrderInit /\ [][Next]_vars


\* ------------------------------------------------------- helpers of the claims
Batch == endpoint = "batch"

Responded == phase = "responded"

FilesIn(state) == { i \in FileIds : pc[i] = state }

NameOf(i) == files[i].filename

ValidFile(i) == ValidateFileSecurity(files[i].content, files[i].filename).ok

\* The entry process_and_store writes for a file that is processed.
SuccessEntryOf(i) ==
    [data |-> B64Encode(ProcessedImage(files[i].content)), format |-> "PNG"]

\* A batch request that passed both rate-limit checks and was answered.
BatchAnswered == Batch /\ Responded /\ files # <<>> /\ limited = "none"

\* ---------------------------------------------------------------------- C1
\* C1: a non-empty batch of N files with K rejected by validation and M failed
\* in the pipeline reports successful = N - K - M, failed = K + M,
\* total_files = N, and every input filename is a key of exactly one of the
\* 'success' and 'errors' maps.
C1_CountsMatchOutcomes ==
    BatchAnswered =>
        /\ response.status = 200
        /\ LET st == response.statistics[1]
               N == Len(files)
               K == Cardinality(FilesIn("rejected"))
               M == Cardinality(FilesIn("failed"))
           IN  /\ st.total_files = N
               /\ st.successful = N - K - M
               /\ st.failed = K + M
        /\ \A i \in FileIds :
              (NameOf(i) \in DOMAIN success) # (NameOf(i) \in DOMAIN errors)

\* ---------------------------------------------------------------------- C2
\* How far the request and the tasks of its files have come.
PhaseRank ==
    CASE phase = "arrived" -> 0
      [] phase = "handler" -> 1
      [] phase = "gather" -> 2
      [] phase = "responded" -> 3

FileRank(i) ==
    CASE pc[i] = "received" -> 0
      [] pc[i] = "validating" -> 1
      [] pc[i] = "processing" /\ stage[i] = "body" -> 2
      [] pc[i] = "processing" /\ stage[i] = "detail" -> 3
      [] pc[i] = "processing" /\ stage[i] = "compose" -> 4
      [] pc[i] \in Terminal -> 5

RECURSIVE SumFileRank(_)
SumFileRank(n) == IF n = 0 THEN 0 ELSE FileRank(n) + SumFileRank(n - 1)

Progress == 100 * PhaseRank + SumFileRank(Len(files))

\* C2: whatever files raise, no exception of a file leaves process_and_store;
\* while the tasks of a batch are running a step is always ready and every
\* step advances the request, so every file is taken to a terminal state; and
\* the batch is answered, with every file terminal and recorded in 'success'
\* or 'errors'.
C2_FaultIsolation ==
    /\ [](Batch =>
            /\ pending_exc = <<>>
            /\ phase = "gather" => ENABLED Next
            /\ BatchAnswered =>
                  /\ response.status = 200
                  /\ \A i \in FileIds :
                        /\ pc[i] \in Terminal
                        /\ NameOf(i) \in DOMAIN success \cup DOMAIN errors)
    /\ [][Progress' > Progress]_vars

\* A batch answered after one file was rejected, one failed and one succeeded.
C2_Witness ==
    /\ Batch /\ Responded /\ Len(files) = 3
    /\ pc[1] = "rejected" /\ pc[2] = "failed" /\ pc[3] = "succeeded"
    /\ NameOf(3) \in DOMAIN success

\* ---------------------------------------------------------------------- C3
\* C3: in a batch of two files, the 'success' entry of a file that is valid and
\* processable is the entry of that file alone, whatever the other file is
\* and however the two tasks interleave.
C3_ValidEntryUnaffected ==
    (BatchAnswered /\ Len(files) = 2 /\ session_ok) =>
        \A i \in FileIds :
            (ValidFile(i) /\ Decodable(files[i].content)) =>
                /\ NameOf(i) \in DOMAIN success
                /\ success[NameOf(i)] = SuccessEntryOf(i)

\* ---------------------------------------------------------------------- C4
\* C4: a batch request with an empty file list that reaches the handler is
\* answered 400 no_files_provided, before the handler's rate-limit check and
\* before any task is started; nothing is written to the result maps.
C4_EmptyBatchRejected ==
    (Batch /\ files = <<>>) =>
        /\ phase # "gather"
        /\ limited # "handler"
        /\ success = EmptyMap /\ errors = EmptyMap
        /\ (Responded /\ limited = "none") =>
              response = ErrorResponse(400, "no_files_provided")

C4_Witness ==
    /\ Batch /\ files = <<>> /\ Responded
    /\ response.status = 400
    /\ rate_limit_storage = Zeros(ProcessLimit)

\* ---------------------------------------------------------------------- C5
\* C5: a non-empty batch that is not rate-limited and runs to completion is
\* answered 200, whatever the outcomes of its files.
C5_CompletedBatchIs200 ==
    BatchAnswered =>
        /\ response.status = 200
        /\ response.code = "batch_processing_completed"

\* A batch answered 200 although none of its files succeeded.
C5_Witness ==
    /\ BatchAnswered /\ response.status = 200 /\ session_ok
    /\ FilesIn("succeeded") = {}
    /\ FilesIn("rejected") # {} /\ FilesIn("failed") # {}


NoFileWork ==
    /\ \A i \in FileIds :
          /\ pc[i] = "received"
          /\ validator_calls[i] = 0
          /\ session_calls[i] = <<>>
    /\ success = EmptyMap /\ errors = EmptyMap

C7_RateLimitedBatchUntouched ==
    Batch =>
        /\ limited # "none" =>
              /\ Responded
              /\ response = ErrorResponse(429, "rate_limit_exceeded")
              /\ NoFileWork
        /\ ~NoFileWork =>
              /\ limited = "none"
              /\ Len(rate_limit_storage) <= ProcessLimit

\* The middleware admitted the request into the last slot and the handler's
\* own check then found the quota used up.
C7_Witness ==
    /\ Batch /\ Len(files) = MaxFiles /\ Responded
    /\ limited = "handler"
    /\ response.status = 429

\* ---------------------------------------------------------------------- C8
\* C8: each file moves received -> validating -> (rejected | processing ->
\* (succeeded | failed)) and in no other way, so the three outcomes are final
\* and validating and processing are never entered twice.
FileTransitions ==
    { <<"received", "validating">>,
      <<"validating", "rejected">>,
      <<"validating", "processing">>,
      <<"processing", "succeeded">>,
      <<"processing", "failed">> }

C8_FileStateMachine ==
    [][ \A i \in FileIds :
           /\ pc'[i] # pc[i] => <<pc[i], pc'[i]>> \in FileTransitions
           /\ validator_calls'[i] <= 1
           /\ Len(session_calls'[i]) <= 2 ]_vars

C8_Witness ==
    /\ Len(files) = 3
    /\ pc[1] = "succeeded" /\ pc[2] = "rejected"
    /\ pc[3] = "processing" /\ stage[3] = "detail"

\* ---------------------------------------------------------------------- C9
\* C9: no identifier is ever a key of both result maps: once recorded as a
\* success it is never recorded as a failure, and the reverse.
C9_NeverInBothMaps ==
    /\ DOMAIN success \cap DOMAIN errors = {}

\* --------------------------------------------------------------------- C10
\* C10: for a file (single or batch) that the validator rejects, the session
\* is never invoked, and in a batch the 'errors' entry of the file carries
\* the validator's message as its error text.
C10_RejectedNeverProcessed ==
    \A i \in FileIds :
        LET v == ValidateFileSecurity(files[i].content, files[i].filename)
        IN  ~v.ok =>
              /\ session_calls[i] = <<>>
              /\ pc[i] \in {"received", "validating", "rejected"}
              /\ (Batch /\ pc[i] = "rejected" /\ Responded) =>
                    /\ NameOf(i) \in DOMAIN errors
                    /\ errors[NameOf(i)].error = v.message

\* What holds of the code: the session is never invoked for a rejected file,
\* and the step that rejects it writes the validator's message under its
\* filename (a later file of the same name may replace that entry).
RejectionRecordsValidatorMessage ==
    [][ \A i \in FileIds :
           LET v == ValidateFileSecurity(files[i].content, files[i].filename)
           IN  ~v.ok =>
                 /\ session_calls'[i] = <<>>
                 /\ pc'[i] \in {"received", "validating", "rejected"}
                 /\ (Batch /\ pc[i] = "validating" /\ pc'[i] # pc[i]) =>
                       /\ NameOf(i) \in DOMAIN errors'
                       /\ errors'[NameOf(i)].error = v.message ]_vars

\* --------------------------------------------------------------------- C11
\* What the files alone say the outcome of file i is.
OutcomeOf(i) ==
    IF ~ValidFile(i) THEN "rejected"
    ELSE IF RemoveRaises(files[i].content, session_ok) # <<>> THEN "failed"
    ELSE "succeeded"

\* The 'errors' entry the files alone determine for file i.
ErrorEntryOf(i) ==
    [error |-> IF ~ValidFile(i)
               THEN ValidateFileSecurity(files[i].content,
                                         files[i].filename).message
               ELSE RemoveRaises(files[i].content, session_ok)[1].msg,
     message |-> FileProcessingErrorMessage(NameOf(i))]

DistinctFilenames ==
    \A i, j \in FileIds : i # j => NameOf(i) # NameOf(j)

FileNamed(n) == CHOOSE i \in FileIds : NameOf(i) = n

\* The result maps holding the entries of the files in `done`, and no other.
SuccessMapOf(done) ==
    [n \in {NameOf(i) : i \in {j \in done : OutcomeOf(j) = "succeeded"}} |->
        SuccessEntryOf(FileNamed(n))]

ErrorsMapOf(done) ==
    [n \in {NameOf(i) : i \in {j \in done : OutcomeOf(j) # "succeeded"}} |->
        ErrorEntryOf(FileNamed(n))]

\* C11: with distinct filenames the result maps hold, at every moment and in
\* whatever order the tasks run and complete, exactly the entries that the
\* completed files determine by themselves, and the answered batch carries
\* the maps and the counts that the list of files determines: nothing
\* depends on which task finished first. (The maps are compared as maps: the
\* order of their keys is not part of the result.)
C11_OrderIndependent ==
    (Batch /\ DistinctFilenames) =>
        LET done == {i \in FileIds : pc[i] \in Terminal}
        IN  /\ \A i \in done : pc[i] = OutcomeOf(i)
            /\ success = SuccessMapOf(done)
            /\ errors = ErrorsMapOf(done)
            /\ BatchAnswered =>
                  /\ done = FileIds
                  /\ response.data = <<[success |-> SuccessMapOf(FileIds),
                                        errors |-> ErrorsMapOf(FileIds)]>>
                  /\ response.statistics =
                        <<[total_files |-> Len(files),
                           successful |->
                               Cardinality({i \in FileIds :
                                              OutcomeOf(i) = "succeeded"}),
                           failed |->
                               Cardinality({i \in FileIds :
                                              OutcomeOf(i) # "succeeded"})]>>

\* A batch of three answered after its last file completed first and its
\* first file last, one file rejected, one failed and one succeeded.
C11_Witness ==
    /\ BatchAnswered /\ DistinctFilenames
    /\ finished = <<3, 2, 1>>
    /\ pc = <<"succeeded", "rejected", "failed">>
    /\ Cardinality(DOMAIN errors) = 2

\* --------------------------------------------------------------------- C19
\* The body pass of file i has been asked of the session and has raised.
BodyPassFailed(i) ==
    /\ session_calls[i] # <<>>
    /\ RemoveRaises(files[i].content, session_ok) # <<>>

\* C19: nothing is tried again. For each file the validator is called at
\* most once, and the session at most twice: the body pass, then the detail
\* pass. A file that succeeded had exactly one call of the validator and
\* exactly these two passes in this order. When the body pass fails, the
\* detail pass is never asked for and the file is failed: in a batch its
\* filename is among the errors, for a single file the exception is the
\* handler's.
C19_NoRetry ==
    \A i \in FileIds :
        /\ validator_calls[i] <= 1
        /\ session_calls[i] \in {<<>>, <<"body">>, <<"body", "detail">>}
        /\ session_calls[i] # <<>> => validator_calls[i] = 1
        /\ pc[i] = "succeeded" =>
              /\ validator_calls[i] = 1
              /\ session_calls[i] = <<"body", "detail">>
        /\ BodyPassFailed(i) =>
              /\ session_calls[i] = <<"body">>
              /\ pc[i] = "failed"
              /\ Batch => NameOf(i) \in DOMAIN errors
              /\ ~Batch => pending_exc # <<>>
              /\ Responded /\ Batch =>
                    NameOf(i) \in DOMAIN response.data[1].errors

\* An answered batch of three: the first file had both passes and succeeded,
\* the body pass of the second failed, the third was rejected by the
\* validator and never reached the session.
C19_Witness ==
    /\ BatchAnswered /\ Len(files) = 3
    /\ pc = <<"succeeded", "failed", "rejected">>
    /\ session_calls = <<(<<"body", "detail">>), (<<"body">>), (<<>>)>>
    /\ validator_calls = <<1, 1, 1>>
    /\ BodyPassFailed(2)
    /\ NameOf(2) \in DOMAIN response.data[1].errors

\* --------------------------------------------------------------------- C20
\* The outcomes the returned result holds: the entries of its two maps.
ReturnedOutcomes ==
    Cardinality(DOMAIN response.data[1].success)
        + Cardinality(DOMAIN response.data[1].errors)

\* C20: the answer of a batch and its statistics are built when every file
\* of the batch has reached a terminal outcome and no task is still
\* validating or processing, so that the returned result holds an outcome
\* for every file: as many outcomes as there are files, and the counts of
\* the statistics add up to the number of files.
C20_NoOutcomeMissing ==
    BatchAnswered =>
        /\ \A i \in FileIds : pc[i] \in Terminal
        /\ running = 0
        /\ ReturnedOutcomes = Len(files)
        /\ response.statistics[1].successful + response.statistics[1].failed
              = response.statistics[1].total_files

\* What holds of the code: the step that builds the answer of a batch is
\* taken when every file is terminal and no task runs, and the counts it
\* reads are the sizes of the two maps as they are then and stay.
BuiltAfterEveryTask ==
    [][ (Batch /\ phase = "gather" /\ phase' = "responded") =>
           /\ \A i \in FileIds : pc[i] \in Terminal
           /\ running = 0
           /\ pc' = pc /\ success' = success /\ errors' = errors
           /\ response'.data = <<[success |-> success, errors |-> errors]>>
           /\ response'.statistics =
                 <<[total_files |-> Len(files),
                    successful |-> Cardinality(DOMAIN success),
                    failed |-> Cardinality(DOMAIN errors)]>> ]_vars

Users == {"u1", "u2"}

\* photo_ids: the lists of distinct photo ids, photo k in place k
PhotoLists == { [k \in 1..n |-> k] : n \in 0..MaxPhotos }

\* class BatchOperationType (two of its four members)
BatchOperationType == {"remove_background", "export"}

\* f"batch_{int(datetime.now().timestamp())}_{user_id}": the second and the
\* user are all that the string is made of, and it is read back unambiguously
\* (the first field is digits only).
BatchId(ts, user_id) == [ts |-> ts, user_id |-> user_id]

\* A batch id that no call of start_batch_operation has returned.
UnknownBatchId == BatchId(MaxClock + 1, "u1")

\* The batch ids a client names in a request: the known ones and another.
RequestedIds == DOMAIN active_operations \cup {UnknownBatchId}

\* _process_single_photo raising: each of its branches is "pass"
ProcessSinglePhotoRaises(operation_type, photo_id) == FALSE

\* int((i + 1) / operation['total'] * 100), done = i + 1
ProgressOf(done, total) == (done * 100) \div total

\* raise HTTPException(status_code=..., detail=...)
HttpError(status_code, detail) ==
    [status |-> status_code, body |-> <<[detail |-> detail]>>]

\* Variant: the routes do not compare the user with the operation's.
IsOwner_Anyone(operation, user_id) == TRUE

\* "status.get('user_id') != current_user.uid" is false
IsOwner(operation, user_id) == operation.user_id = user_id

\* No image request is being followed.
NoImageRequest ==
    /\ endpoint = "batch"
    /\ files = <<>>
    /\ session_ok = TRUE
    /\ rate_limit_storage = <<>>
    /\ failed_attempts = <<>>
    /\ blocked_ips = {}
    /\ now = 0
    /\ Untouched
    /\ record_order = FALSE
    /\ NoTraffic

BatchInit ==
    /\ NoImageRequest
    /\ NoOperations
    /\ NoMaskPipeline

\* What no step of a batch operation changes.
beside_operation_vars == <<image_vars, mask_vars, traffic_vars>>

\* POST /batch/start -> BatchOperation.start_batch_operation. The coroutine
\* never suspends: the record is stored and the task created in one step.
StartBatchOperation(operation_type, photo_ids, user_id) ==
    /\ current = <<>>
    /\ calls < MaxCalls
    /\ calls' = calls + 1
    /\ starts' = starts + 1
    /\ LET batch_id == BatchId(clock, user_id)
           operation_data ==
               [id |-> batch_id, type |-> operation_type,
                photo_ids |-> photo_ids, user_id |-> user_id,
                status |-> "started", progress |-> 0,
                total |-> Len(photo_ids), completed |-> 0, failed |-> 0,
                started_at |-> clock, estimated_completion |-> "None",
                completed_at |-> <<>>]
       IN  /\ active_operations' =
                 Put(active_operations, batch_id, operation_data)
           /\ ready_tasks' = Append(ready_tasks, batch_id)
           /\ reply' = [status |-> 200,
                        body |-> <<[batch_id |-> batch_id,
                                    status |-> "started"]>>]
           /\ cancelled_at' = [b \in DOMAIN cancelled_at \ {batch_id} |->
                                  cancelled_at[b]]
    /\ UNCHANGED <<beside_operation_vars, current, clock>>

\* _process_batch, from its first step to the head of the loop: the task
\* created first begins first, once the event loop is free.
ProcessBatchBegin ==
    /\ current = <<>>
    /\ ready_tasks # <<>>
    /\ LET batch_id == Head(ready_tasks)
       IN  /\ batch_id \in DOMAIN active_operations
           /\ active_operations' =
                 [active_operations EXCEPT ![batch_id].status = "processing"]
           /\ current' = <<[batch_id |-> batch_id, i |-> 0]>>
    /\ ready_tasks' = Tail(ready_tasks)
    /\ UNCHANGED <<beside_operation_vars, clock, reply, cancelled_at, calls,
                   starts>>

\* _process_batch: one turn of "for i, photo_id in enumerate(...)". The
\* awaited _process_single_photo never suspends, so the task keeps the event
\* loop from its first step to its last.
ProcessPhoto ==
    /\ current # <<>>
    /\ LET batch_id == current[1].batch_id
           i == current[1].i
           operation == active_operations[batch_id]
       IN  /\ i < Len(operation.photo_ids)
           /\ active_operations' =
                 [active_operations EXCEPT
                    ![batch_id].completed =
                        IF ProcessSinglePhotoRaises(operation.type,
                                                    operation.photo_ids[i + 1])
                        THEN @ ELSE @ + 1,
                    ![batch_id].failed =
                        IF ProcessSinglePhotoRaises(operation.type,
                                                    operation.photo_ids[i + 1])
                        THEN @ + 1 ELSE @,
                    ![batch_id].progress = ProgressOf(i + 1, operation.total),
                    ![batch_id].estimated_completion =
                        IF i > 0 THEN "set" ELSE @]
           /\ current' = <<[batch_id |-> batch_id, i |-> i + 1]>>
    /\ UNCHANGED <<beside_operation_vars, ready_tasks, clock, reply,
                   cancelled_at, calls, starts>>

\* _process_batch after the loop: status 'completed', completed_at
ProcessBatchEnd ==
    /\ current # <<>>
    /\ LET batch_id == current[1].batch_id
           operation == active_operations[batch_id]
       IN  /\ current[1].i = Len(operation.photo_ids)
           /\ active_operations' =
                 [active_operations EXCEPT
                    ![batch_id].status = "completed",
                    ![batch_id].completed_at = <<clock>>]
    /\ current' = <<>>
    /\ UNCHANGED <<beside_operation_vars, ready_tasks, clock, reply,
                   cancelled_at, calls, starts>>

\* GET /batch/{batch_id}/status
GetBatchStatus(batch_id, user_id) ==
    /\ current = <<>>
    /\ calls < MaxCalls
    /\ calls' = calls + 1
    /\ reply' =
         IF batch_id \notin DOMAIN active_operations
         THEN HttpError(404, "Batch operation not found.")
         ELSE IF ~IsOwner(active_operations[batch_id], user_id)
         THEN HttpError(403, "Access denied.")
         ELSE [status |-> 200, body |-> <<active_operations[batch_id]>>]
    /\ UNCHANGED <<beside_operation_vars, active_operations, ready_tasks,
                   current, clock, cancelled_at, starts>>

\* DELETE /batch/{batch_id} -> BatchOperation.cancel_operation
CancelBatchOperation(batch_id, user_id) ==
    /\ current = <<>>
    /\ calls < MaxCalls
    /\ calls' = calls + 1
    /\ IF batch_id \notin DOMAIN active_operations
       THEN /\ reply' = HttpError(404, "Batch operation not found.")
            /\ UNCHANGED <<active_operations, cancelled_at>>
       ELSE IF ~IsOwner(active_operations[batch_id], user_id)
       THEN /\ reply' = HttpError(403, "Access denied.")
            /\ UNCHANGED <<active_operations, cancelled_at>>
       ELSE /\ active_operations' =
                  [active_operations EXCEPT ![batch_id].status = "cancelled"]
            /\ reply' = [status |-> 200, body |-> <<[success |-> TRUE]>>]
            /\ cancelled_at' =
                  Put(cancelled_at, batch_id,
                      active_operations[batch_id].completed
                          + active_operations[batch_id].failed)
    /\ UNCHANGED <<beside_operation_vars, ready_tasks, current, clock, starts>>

\* A second passes.
Tick ==
    /\ clock < MaxClock
    /\ clock' = clock + 1
    /\ UNCHANGED <<beside_operation_vars, active_operations, ready_tasks,
                   current, reply, cancelled_at, calls, starts>>

BatchNext ==
    \/ \E operation_type \in BatchOperationType, photo_ids \in PhotoLists,
          user_id \in Users :
          StartBatchOperation(operation_type, photo_ids, user_id)
    \/ ProcessBatchBegin
    \/ ProcessPhoto
    \/ ProcessBatchEnd
    \/ \E batch_id \in RequestedIds, user_id \in Users :
          GetBatchStatus(batch_id, user_id)
    \/ \E batch_id \in RequestedIds, user_id \in Users :
          CancelBatchOperation(batch_id, user_id)
    \/ Tick

BatchSpec == BatchInit /\ [][BatchNext]_vars

\* --------------------------------------------------------------------- C12
\* C12: once cancel_operation has returned True for an operation, no photo of
\* it that had not been started by then is processed afterwards (a photo in
\* progress at that moment may run to completion: none ever is, because the
\* task does not give up the event loop inside its loop).
C12_CancelHonoured ==
    \A batch_id \in DOMAIN cancelled_at :
        active_operations[batch_id].completed
            + active_operations[batch_id].failed <= cancelled_at[batch_id]

\* --------------------------------------------------------------------- C27
\* C27: for every tracked operation completed + failed <= total and the
\* progress is within 0..100, and an operation of a non-empty photo list
\* whose status is 'completed' has completed + failed = total and progress
\* 100 (each photo id was counted once, as completed or as failed).
C27_Counters ==
    \A batch_id \in DOMAIN active_operations :
        LET operation == active_operations[batch_id]
        IN  /\ operation.completed + operation.failed <= operation.total
            /\ operation.progress \in 0..100
            /\ (operation.status = "completed" /\ operation.total > 0) =>
                  /\ operation.completed + operation.failed = operation.total
                  /\ operation.progress = 100

\* --------------------------------------------------------------------- C28
\* C28: 'cancelled' is absorbing: an operation for which cancel_operation
\* has returned True has the status 'cancelled' from then on, whatever steps
\* its background task takes; and the status of an operation is one of
\* started, processing, completed, failed and cancelled.
C28_CancelledIsAbsorbing ==
    /\ \A batch_id \in DOMAIN active_operations :
          active_operations[batch_id].status \in
              {"started", "processing", "completed", "failed", "cancelled"}
    /\ \A batch_id \in DOMAIN cancelled_at :
          active_operations[batch_id].status = "cancelled"

\* --------------------------------------------------------------------- C29
\* C29: every call of start_batch_operation has its own tracked operation:
\* there are as many tracked operations as calls that returned, so no two
\* calls returned the same batch id and no record replaced an earlier one,
\* and no two tasks were created for one batch id.
C29_OwnOperationPerStart ==
    /\ Cardinality(DOMAIN active_operations) = starts
    /\ \A a, b \in 1..Len(ready_tasks) :
          a # b => ready_tasks[a] # ready_tasks[b]

\* --------------------------------------------------------------------- C30
\* C30: a status or cancel request that names an unknown batch id is
\* answered 404, one by a user other than the user who started the operation
\* is answered 403, and neither changes any record; a request is answered
\* 200 only to the user who started the operation it names.
C30_OwnerOnly ==
    [][ \A batch_id \in RequestedIds, user_id \in Users :
          (GetBatchStatus(batch_id, user_id)
              \/ CancelBatchOperation(batch_id, user_id)) =>
              /\ batch_id \notin DOMAIN active_operations =>
                    /\ reply'.status = 404
                    /\ active_operations' = active_operations
              /\ (/\ batch_id \in DOMAIN active_operations
                  /\ active_operations[batch_id].user_id # user_id) =>
                    /\ reply'.status = 403
                    /\ active_operations' = active_operations
              /\ reply'.status = 200 =>
                    /\ batch_id \in DOMAIN active_operations
                    /\ active_operations[batch_id].user_id = user_id ]_vars

\* The one operation there is was started by u1 and its task has not begun;
\* the request that followed was refused with 403, so it was u2's, and the
\* operation is still 'started'.
C30_Witness ==
    /\ calls = 2 /\ starts = 1
    /\ reply = HttpError(403, "Access denied.")
    /\ \E batch_id \in DOMAIN active_operations :
          /\ active_operations[batch_id].user_id = "u1"
          /\ active_operations[batch_id].status = "started"
          /\ active_operations[batch_id].photo_ids # <<>>


\* ================================================================= MaskSpec
\* process_single_image behind the two passes of the session (lines 76-88):
\* the masks are combined, cleaned and smoothed, and apply_mask_to_image puts
\* the result on the original image. numpy, skimage, scipy.ndimage and PIL are
\* modelled by what their documentation says the calls do. A raster of width
\* w and height h numbers its pixels 1..w*h row by row.
Cell(x, y, w) == (y - 1) * w + x

XOf(k, w) == ((k - 1) % w) + 1

YOf(k, w) == ((k - 1) \div w) + 1

\* The pixels of the rectangle of rw x rh pixels whose first pixel is (x0, y0).
Rect(x0, y0, rw, rh, w) ==
    { Cell(x, y, w) : x \in x0..(x0 + rw - 1), y \in y0..(y0 + rh - 1) }

\* An "L" image with the given pixels at 255, at 128 and at 127, 0 elsewhere.
MaskImage(w, h, at255, at128, at127) ==
    [w |-> w, h |-> h,
     px |-> [k \in 1..(w * h) |->
                IF k \in at255 THEN 255
                ELSE IF k \in at128 THEN 128
                ELSE IF k \in at127 THEN 127
                ELSE 0]]

\* Variant: the comparison value grows with the runs already completed.
MaskThreshold_PerRun == 127 + Len(outputs)

\* np.array(body_mask) > 127: the comparison value
MaskThreshold == 127

\* morphology.remove_small_objects(combined_array, min_size=250)
min_size == 250

\* morphology.remove_small_holes(cleaned_array, area_threshold=150)
area_threshold == 150

\* Variant: ">=" written for ">".
GreaterThan_OrEqual(mask, t) ==
    [w |-> mask.w, h |-> mask.h,
     on |-> { k \in 1..(mask.w * mask.h) : mask.px[k] >= t }]

\* np.array(mask) > t: the boolean array, as the set of its True pixels
GreaterThan(mask, t) ==
    [w |-> mask.w, h |-> mask.h,
     on |-> { k \in 1..(mask.w * mask.h) : mask.px[k] > t }]

\* np.logical_or(a, b), for arrays of one shape
LogicalOr(a, b) == [w |-> a.w, h |-> a.h, on |-> a.on \cup b.on]

\* The pixels next to pixel k along a row or a column (connectivity 1).
Neighbours(k, w, h) ==
    (IF XOf(k, w) > 1 THEN {k - 1} ELSE {})
        \cup (IF XOf(k, w) < w THEN {k + 1} ELSE {})
        \cup (IF YOf(k, w) > 1 THEN {k - w} ELSE {})
        \cup (IF YOf(k, w) < h THEN {k + w} ELSE {})

\* The pixels of `on` reached from `frontier` through neighbours.
RECURSIVE Flood(_, _, _, _, _)
Flood(frontier, seen, on, w, h) ==
    LET reached == { n \in UNION { Neighbours(k, w, h) : k \in frontier } :
                       n \in on /\ n \notin seen }
    IN  IF reached = {} THEN seen
        ELSE Flood(reached, seen \cup reached, on, w, h)

\* The connected component of pixel k in the set `on`.
ComponentOf(k, on, w, h) == Flood({k}, {k}, on, w, h)

\* Variant: a component of exactly the given size counts as too small.
RECURSIVE LargeComponents_Exclusive(_, _, _, _)
LargeComponents_Exclusive(on, w, h, size) ==
    IF on = {} THEN {}
    ELSE LET component == ComponentOf(CHOOSE k \in on : TRUE, on, w, h)
         IN  (IF Cardinality(component) > size THEN component ELSE {})
                 \cup LargeComponents_Exclusive(on \ component, w, h, size)

\* The pixels of the connected components of `on` that are not smaller than
\* `size` ("too_small = component_sizes < min_size").
RECURSIVE LargeComponents(_, _, _, _)
LargeComponents(on, w, h, size) ==
    IF on = {} THEN {}
    ELSE LET component == ComponentOf(CHOOSE k \in on : TRUE, on, w, h)
         IN  (IF Cardinality(component) >= size THEN component ELSE {})
                 \cup LargeComponents(on \ component, w, h, size)

\* Variant: nothing is removed.
RemoveSmallObjects_Nothing(ar, size) == ar

\* morphology.remove_small_objects(ar, min_size=size) on a boolean array
RemoveSmallObjects(ar, size) ==
    [ar EXCEPT !.on = LargeComponents(ar.on, ar.w, ar.h, size)]

\* morphology.remove_small_holes(ar, area_threshold=area): the small objects
\* of the inverted array are removed and the array is inverted back.
RemoveSmallHoles(ar, area) ==
    LET all == 1..(ar.w * ar.h)
    IN  [ar EXCEPT
           !.on = all \ LargeComponents(all \ ar.on, ar.w, ar.h, area)]

\* gaussian_filter(sigma=1): the weights of the offsets 0..4 (truncate=4.0),
\* exp(-d*d/2) normalised to the sum 1, in ten-thousandths.
GaussianWeights == <<3990, 2420, 540, 44, 1>>

GaussianWeight(d) == GaussianWeights[(IF d < 0 THEN 0 - d ELSE d) + 1]

\* mode='reflect': the index in 1..n that the index p stands for
Reflect(p, n) == IF p < 1 THEN 1 - p ELSE IF p > n THEN 2 * n + 1 - p ELSE p

GaussianOffsets == (0 - 4)..4

RECURSIVE SumOver(_, _)
SumOver(f, keys) ==
    IF keys = {} THEN 0
    ELSE LET key == CHOOSE e \in keys : TRUE
         IN  f[key] + SumOver(f, keys \ {key})

\* gaussian_filter(ar.astype(float), sigma=1): along the rows, then along the
\* columns; the values in hundred-millionths.
GaussianFilter(ar) ==
    LET n == ar.w * ar.h
        along_rows ==
            [k \in 1..n |->
                SumOver([d \in GaussianOffsets |->
                            IF Cell(Reflect(XOf(k, ar.w) + d, ar.w),
                                    YOf(k, ar.w), ar.w) \in ar.on
                            THEN GaussianWeight(d) ELSE 0],
                        GaussianOffsets)] \o <<>>
    IN  [w |-> ar.w, h |-> ar.h,
         px |-> [k \in 1..n |->
                    SumOver([d \in GaussianOffsets |->
                                GaussianWeight(d)
                                    * along_rows[Cell(XOf(k, ar.w),
                                                      Reflect(YOf(k, ar.w) + d,
                                                              ar.h),
                                                      ar.w)]],
                            GaussianOffsets)]]

\* Image.fromarray((smoothed_array * 255).astype(np.uint8))
ToUint8Image(smoothed) ==
    [smoothed EXCEPT
       !.px = [k \in 1..(smoothed.w * smoothed.h) |->
                  ((smoothed.px[k] \div 100) * 255) \div 1000000]]

\* The modes of the source images and the pixels Image.open gives for them.
Modes == {"RGB", "RGBA", "L"}

PixelOf(mode, k) ==
    CASE mode = "L" -> <<(7 * k) % 256>>
      [] mode = "RGB" -> <<(3 * k) % 256, (5 * k) % 256, (11 * k) % 256>>
      [] mode = "RGBA" -> <<(3 * k) % 256, (5 * k) % 256, (11 * k) % 256,
                            (13 * k) % 256>>

\* input_image.convert('RGBA'), pixel by pixel
ConvertToRGBA(mode, pixel) ==
    CASE mode = "L" -> <<pixel[1], pixel[1], pixel[1], 255>>
      [] mode = "RGB" -> <<pixel[1], pixel[2], pixel[3], 255>>
      [] mode = "RGBA" -> pixel

\* Image.open(io.BytesIO(original_bytes)) for an image of the given mode; an
\* image stored on its side (EXIF orientation 6) is opened as it is stored.
SourceImage(mode, on_its_side) ==
    LET w == IF on_its_side THEN MaskHeight ELSE MaskWidth
        h == IF on_its_side THEN MaskWidth ELSE MaskHeight
    IN  [mode |-> mode, w |-> w, h |-> h,
         px |-> [k \in 1..(w * h) |-> PixelOf(mode, k)]]

\* Variant: the mask is stretched to the size of the image when they differ.
ApplyMaskToImage_Resizing(original, mask_image) ==
    [ok |-> TRUE, error |-> <<>>,
     png |-> <<[format |-> "PNG", mode |-> "RGBA", w |-> original.w,
                h |-> original.h,
                px |-> [k \in 1..(original.w * original.h) |->
                           LET rgba == ConvertToRGBA(original.mode,
                                                     original.px[k])
                           IN  <<rgba[1], rgba[2], rgba[3],
                                 mask_image.px[
                                     Cell(((XOf(k, original.w) - 1)
                                               * mask_image.w)
                                              \div original.w + 1,
                                          ((YOf(k, original.w) - 1)
                                               * mask_image.h)
                                              \div original.h + 1,
                                          mask_image.w)]>>]]>>]

\* Variant: the colour of a pixel is multiplied by its new alpha.
ApplyMaskToImage_Premultiplied(original, mask_image) ==
    IF original.w # mask_image.w \/ original.h # mask_image.h
    THEN [ok |-> FALSE, error |-> <<Msg("images do not match", "")>>,
          png |-> <<>>]
    ELSE [ok |-> TRUE, error |-> <<>>,
          png |-> <<[format |-> "PNG", mode |-> "RGBA", w |-> original.w,
                     h |-> original.h,
                     px |-> [k \in 1..(original.w * original.h) |->
                                LET rgba == ConvertToRGBA(original.mode,
                                                          original.px[k])
                                    a == mask_image.px[k]
                                IN  <<(rgba[1] * a) \div 255,
                                      (rgba[2] * a) \div 255,
                                      (rgba[3] * a) \div 255, a>>]]>>]

\* apply_mask_to_image(original_bytes, mask_image): the image is converted to
\* RGBA unless it is RGBA, putalpha replaces its alpha band by the mask (and
\* raises ValueError when the sizes differ), and the image is saved as PNG.
ApplyMaskToImage(original, mask_image) ==
    IF original.w # mask_image.w \/ original.h # mask_image.h
    THEN [ok |-> FALSE, error |-> <<Msg("images do not match", "")>>,
          png |-> <<>>]
    ELSE [ok |-> TRUE, error |-> <<>>,
          png |-> <<[format |-> "PNG", mode |-> "RGBA", w |-> original.w,
                     h |-> original.h,
                     px |-> [k \in 1..(original.w * original.h) |->
                                LET rgba == ConvertToRGBA(original.mode,
                                                          original.px[k])
                                IN  <<rgba[1], rgba[2], rgba[3],
                                      mask_image.px[k]>>]]>>]

\* ------------------------------------------------------ the masks of MaskSpec
\* Regions of the masks: a rectangle of 500 pixels, one of 10 pixels a column
\* away from it, the pixels between the two, a region of 249 pixels, the
\* pixel that makes it 250, two rectangles of 200 pixels a column apart, and
\* the whole raster with a hole of 144 and of 150 pixels.
LargeRegion == Rect(1, 1, 25, 20, MaskWidth)

SmallRegion == Rect(27, 1, 2, 5, MaskWidth)

BridgeRegion == Rect(26, 1, 1, 5, MaskWidth)

Region249 == Rect(1, 1, 25, 9, MaskWidth) \cup Rect(1, 10, 24, 1, MaskWidth)

Pixel250 == Rect(25, 10, 1, 1, MaskWidth)

LeftRegion == Rect(1, 1, 10, 20, MaskWidth)

RightRegion == Rect(12, 1, 10, 20, MaskWidth)

WholeRaster == Rect(1, 1, MaskWidth, MaskHeight, MaskWidth)

Hole144 == Rect(5, 5, 12, 12, MaskWidth)

Hole150 == Rect(5, 5, 15, 10, MaskWidth)

Mask(at255, at128, at127) ==
    MaskImage(MaskWidth, MaskHeight, at255, at128, at127)

\* The pairs of masks that the two passes of the session return.
MaskPairs ==
    { [body |-> Mask({}, {}, {}), details |-> Mask({}, {}, {})],
      [body |-> Mask(LargeRegion \cup SmallRegion, {}, {}),
       details |-> Mask({}, {}, {})],
      [body |-> Mask(LargeRegion \cup SmallRegion, {}, {}),
       details |-> Mask({}, BridgeRegion, {})],
      [body |-> Mask(LargeRegion \cup SmallRegion, {}, {}),
       details |-> Mask({}, {}, BridgeRegion)],
      [body |-> Mask(Region249, {}, {}), details |-> Mask({}, {}, {})],
      [body |-> Mask(Region249, {}, {}), details |-> Mask({}, Pixel250, {})],
      [body |-> Mask(Region249, {}, {}), details |-> Mask({}, {}, Pixel250)],
      [body |-> Mask(LeftRegion, {}, {}),
       details |-> Mask(RightRegion, {}, {})],
      [body |-> Mask(WholeRaster \ Hole144, {}, {}),
       details |-> Mask({}, {}, Hole144)],
      [body |-> Mask(WholeRaster \ Hole150, {}, {}),
       details |-> Mask({}, {}, {})] }

\* The source images: of each mode, and one stored on its side.
SourceImages ==
    { SourceImage(mode, FALSE) : mode \in Modes }
        \cup { SourceImage("RGB", TRUE) }

\* Both passes of the session have returned their masks.
MaskInit ==
    /\ NoImageRequest
    /\ NoOperations
    /\ source \in SourceImages
    /\ \E pair \in MaskPairs :
          /\ body_mask = pair.body
          /\ details_mask = pair.details
    /\ mask_pc = "masks"
    /\ combined_array = <<>>
    /\ cleaned_array = <<>>
    /\ filled_array = <<>>
    /\ final_mask = <<>>
    /\ result = <<>>
    /\ outputs = <<>>

\* What no step of the mask pipeline changes.
beside_mask_vars == <<image_vars, operation_vars, traffic_vars>>

\* lines 77-79: the two comparisons and np.logical_or
CombineMasks ==
    /\ mask_pc = "masks"
    /\ combined_array' =
         <<LogicalOr(GreaterThan(body_mask, MaskThreshold),
                     GreaterThan(details_mask, MaskThreshold))>>
    /\ mask_pc' = "combined"
    /\ UNCHANGED <<beside_mask_vars, source, body_mask, details_mask,
                   cleaned_array, filled_array, final_mask, result, outputs>>

\* line 82
CleanObjects ==
    /\ mask_pc = "combined"
    /\ cleaned_array' = <<RemoveSmallObjects(combined_array[1], min_size)>>
    /\ mask_pc' = "cleaned"
    /\ UNCHANGED <<beside_mask_vars, source, body_mask, details_mask,
                   combined_array, filled_array, final_mask, result, outputs>>

\* line 83
FillHoles ==
    /\ mask_pc = "cleaned"
    /\ filled_array' = <<RemoveSmallHoles(cleaned_array[1], area_threshold)>>
    /\ mask_pc' = "filled"
    /\ UNCHANGED <<beside_mask_vars, source, body_mask, details_mask,
                   combined_array, cleaned_array, final_mask, result, outputs>>

\* lines 84-85
Smooth ==
    /\ mask_pc = "filled"
    /\ final_mask' = <<ToUint8Image(GaussianFilter(filled_array[1]))>>
    /\ mask_pc' = "smoothed"
    /\ UNCHANGED <<beside_mask_vars, source, body_mask, details_mask,
                   combined_array, cleaned_array, filled_array, result,
                   outputs>>

\* line 88, and the return or the exception of process_single_image
ApplyMask ==
    /\ mask_pc = "smoothed"
    /\ result' = <<ApplyMaskToImage(source, final_mask[1])>>
    /\ outputs' = Append(outputs, ApplyMaskToImage(source, final_mask[1]))
    /\ mask_pc' = "returned"
    /\ UNCHANGED <<beside_mask_vars, source, body_mask, details_mask,
                   combined_array, cleaned_array, filled_array, final_mask>>

\* process_single_image is called again on the same bytes: the session
\* returns the same masks and the locals of the call are new.
RunAgain ==
    /\ mask_pc = "returned"
    /\ Len(outputs) < MaxRuns
    /\ mask_pc' = "masks"
    /\ combined_array' = <<>>
    /\ cleaned_array' = <<>>
    /\ filled_array' = <<>>
    /\ final_mask' = <<>>
    /\ result' = <<>>
    /\ UNCHANGED <<beside_mask_vars, source, body_mask, details_mask, outputs>>

MaskNext ==
    \/ CombineMasks
    \/ CleanObjects
    \/ FillHoles
    \/ Smooth
    \/ ApplyMask
    \/ RunAgain

MaskSpec == MaskInit /\ [][MaskNext]_vars


\* ------------------------------------------------- helpers of C13 .. C18
ShapeOf(raster) == <<raster.w, raster.h>>

\* The connected components of the set `on`, each as the set of its pixels.
RECURSIVE Components(_, _, _)
Components(on, w, h) ==
    IF on = {} THEN {}
    ELSE LET component == ComponentOf(CHOOSE k \in on : TRUE, on, w, h)
         IN  {component} \cup Components(on \ component, w, h)

\* The foreground of an 8-bit mask: its pixels above 127.
Foreground(mask) == { k \in 1..(mask.w * mask.h) : mask.px[k] > 127 }

C14_ShapesKept ==
    /\ ShapeOf(body_mask) = ShapeOf(details_mask)
    /\ \A ar \in {combined_array, cleaned_array, filled_array, final_mask} :
          ar # <<>> => ShapeOf(ar[1]) = ShapeOf(body_mask)
    /\ result # <<>> =>
          IF ShapeOf(final_mask[1]) = ShapeOf(source)
          THEN /\ result[1].ok
               /\ ShapeOf(result[1].png[1]) = ShapeOf(source)
               /\ DOMAIN result[1].png[1].px = 1..(source.w * source.h)
          ELSE /\ ~result[1].ok
               /\ result[1].png = <<>>
               /\ result[1].error = <<Msg("images do not match", "")>>

\* A run on an image stored on its side has ended with the error.
C14_Witness ==
    /\ mask_pc = "returned"
    /\ ShapeOf(source) = <<MaskHeight, MaskWidth>>
    /\ ShapeOf(final_mask[1]) = <<MaskWidth, MaskHeight>>
    /\ ~result[1].ok

\* --------------------------------------------------------------------- C15
\* C15: the cleaned mask holds every pixel of each connected component of the
\* combined mask that has 250 pixels or more and no pixel of a component that
\* has fewer, and nothing else: of a component of 500 pixels and one of 10 it
\* is the component of 500, a component of 249 pixels is removed and one of
\* 250 is kept.
C15_SmallObjectsRemoved ==
    cleaned_array # <<>> =>
        LET combined == combined_array[1].on
            cleaned == cleaned_array[1].on
        IN  /\ cleaned \subseteq combined
            /\ \A component \in Components(combined, MaskWidth, MaskHeight) :
                  IF Cardinality(component) >= 250
                  THEN component \subseteq cleaned
                  ELSE component \cap cleaned = {}
            /\ combined = LargeRegion \cup SmallRegion =>
                  /\ Cardinality(LargeRegion) = 500
                  /\ Cardinality(SmallRegion) = 10
                  /\ cleaned = LargeRegion
            /\ combined = Region249 =>
                  /\ Cardinality(Region249) = 249
                  /\ cleaned = {}
            /\ combined = Region249 \cup Pixel250 => cleaned = combined

\* The component of 10 pixels has been removed and the one of 500 kept.
C15_Witness ==
    /\ mask_pc = "cleaned"
    /\ combined_array[1].on = LargeRegion \cup SmallRegion
    /\ cleaned_array[1].on = LargeRegion

\* --------------------------------------------------------------------- C16
\* The pipeline with the smoothing done first: the combined mask is smoothed
\* and made 8-bit, its pixels above 127 are the objects, the small ones are
\* removed and the small holes filled.
SmoothedFirst(combined) ==
    RemoveSmallHoles(
        RemoveSmallObjects(
            GreaterThan(ToUint8Image(GaussianFilter(combined)), MaskThreshold),
            min_size),
        area_threshold)

\* C16: for the mask of two regions of 200 pixels one column apart, the
\* final mask of the pipeline has another foreground than the pipeline with
\* the smoothing done first: the two orders are not equivalent.
C16_OrderMatters ==
    (final_mask # <<>> /\ combined_array[1].on = LeftRegion \cup RightRegion) =>
        Foreground(final_mask[1]) # SmoothedFirst(combined_array[1]).on

\* The pipeline has removed both regions, while the smoothing done first
\* joins them into one object that is kept.
C16_Witness ==
    /\ final_mask # <<>>
    /\ combined_array[1].on = LeftRegion \cup RightRegion
    /\ Foreground(final_mask[1]) = {}
    /\ LeftRegion \cup RightRegion \subseteq SmoothedFirst(combined_array[1]).on

\* --------------------------------------------------------------------- C17
\* C17: the returned image has the pixels of the source image, as many and in
\* the same places: each has the red, green and blue of the source pixel (the
\* grey of an "L" image three times) and the value of the final mask at that
\* place as its alpha.
C17_OnlyAlphaChanges ==
    (result # <<>> /\ result[1].ok) =>
        LET png == result[1].png[1]
        IN  /\ png.w = source.w /\ png.h = source.h
            /\ DOMAIN png.px = DOMAIN source.px
            /\ \A k \in DOMAIN png.px :
                  /\ Len(png.px[k]) = 4
                  /\ png.px[k][4] = final_mask[1].px[k]
                  /\ \A band \in 1..3 :
                        png.px[k][band] =
                            IF source.mode = "L" THEN source.px[k][1]
                            ELSE source.px[k][band]

\* An RGBA image has been returned with its own alpha replaced by a mask
\* that is opaque in places and transparent in others.
C17_Witness ==
    /\ mask_pc = "returned" /\ result[1].ok
    /\ source.mode = "RGBA"
    /\ \E k \in DOMAIN source.px :
          /\ result[1].png[1].px[k][4] = 255
          /\ source.px[k][4] # 255
    /\ \E k \in DOMAIN source.px :
          /\ result[1].png[1].px[k][4] = 0
          /\ source.px[k][1] # 0

\* --------------------------------------------------------------------- C18
\* C18: a pixel of the combined array is set exactly when the body mask or
\* the detail mask is above 127 there (127 is not); the cleaned array is the
\* combined array without its small objects, the filled array the cleaned
\* array without its small holes, and the final mask the filled array
\* smoothed and made 8-bit.
C18_MaskCompositor ==
    /\ combined_array # <<>> =>
          \A k \in 1..(MaskWidth * MaskHeight) :
              k \in combined_array[1].on <=>
                  (body_mask.px[k] > 127 \/ details_mask.px[k] > 127)
    /\ cleaned_array # <<>> =>
          cleaned_array[1] = RemoveSmallObjects(combined_array[1], 250)
    /\ filled_array # <<>> =>
          filled_array[1] = RemoveSmallHoles(cleaned_array[1], 150)
    /\ final_mask # <<>> =>
          final_mask[1] = ToUint8Image(GaussianFilter(filled_array[1]))

\* The final mask of a detail mask whose pixels at 127 were not taken for
\* foreground.
C18_Witness ==
    /\ final_mask # <<>>
    /\ details_mask = Mask({}, {}, BridgeRegion)
    /\ BridgeRegion \cap combined_array[1].on = {}
    /\ SmallRegion \cap cleaned_array[1].on = {}
    /\ \E k \in LargeRegion : final_mask[1].px[k] = 255

\* ============================================================== LimiterSpec
\* One client IP sending requests of several kinds to the application: every
\* request passes RateLimitMiddleware.dispatch, and a request for one of the
\* two background-removal routes then reaches the handler's own check.

\* A behaviour is a burst of requests of one kind, sent one after the other
\* within one second, and then a few steps of any kind.
\* The steps after the burst: requests, clock steps, unblocks.
MaxSteps == 2
\* The requests that may be between the middleware and their handler.
MaxInFlight == 1
\* The requests of the burst, enough for a client of the 'process' quota to
\* be blocked.
MaxBurst == 81

\* request.url.path of a request of each kind
PathFor(kind) ==
    CASE kind \in {"batch", "single"} -> PathOf(kind)
      [] kind = "upload" -> [segments |-> <<"photos">>, trailing_slash |-> TRUE]
      [] kind = "list" -> [segments |-> <<>>, trailing_slash |-> TRUE]
      [] OTHER -> [segments |-> <<"health">>, trailing_slash |-> FALSE]

\* remove_background_single and remove_background_batch call is_rate_limited
\* themselves; no other route does.
ChecksInHandler(kind) == kind \in {"batch", "single"}

\* The limiter and what is recorded of its calls, as one record.
Limiter ==
    [storage |-> rate_limit_storage, failed |-> failed_attempts,
     blocked |-> blocked_ips, admitted |-> admitted,
     called_types |-> called_types, sent_kinds |-> sent_kinds,
     sent |-> sent, answered |-> answered, first_rejection |-> first_rejection,
     last_call |-> last_call, call_count |-> call_count]

\* is_rate_limited(request, endpoint_type) on the limiter of record st
IsRateLimitedOfType(st, instance, endpoint_type, at) ==
    IsRateLimited(instance, endpoint_type, st.storage, st.failed, st.blocked, at)

\* The calls of this type that returned False at this time, by the record.
AdmittedAt(record, endpoint_type, at) ==
    IF <<endpoint_type, at>> \in DOMAIN record
    THEN record[<<endpoint_type, at>>] ELSE 0

\* One call of is_rate_limited at time `at`, and what is recorded of it.
Checked(st, instance, endpoint_type, at) ==
    LET r == IsRateLimitedOfType(st, instance, endpoint_type, at)
    IN  [st EXCEPT
           !.storage = r.storage,
           !.failed = r.failed,
           !.blocked = r.blocked,
           !.admitted = IF r.limited THEN @
                        ELSE Put(@, <<endpoint_type, at>>,
                                 AdmittedAt(@, endpoint_type, at) + 1),
           !.called_types = @ \cup {endpoint_type},
           !.last_call = <<[op |-> "is_rate_limited", instance |-> instance,
                            endpoint_type |-> endpoint_type, at |-> at,
                            limited |-> r.limited,
                            blocked |-> instance \in st.blocked]>>,
           !.call_count = @ + 1]

\* The request is answered 429.
Rejected(st) ==
    [st EXCEPT !.first_rejection = IF @ = <<>> THEN <<st.answered>> ELSE @]

\* The request of this kind is answered, and not by a rate limit.
Answered(st, kind) == [st EXCEPT !.answered[kind] = @ + 1]

\* RateLimitMiddleware.dispatch for a request of this kind
AfterMiddleware(st, kind, at) ==
    LET c == Checked([st EXCEPT !.sent_kinds = @ \cup {kind},
                                !.sent = @ + 1],
                     "middleware", GetEndpointType(PathFor(kind)), at)
    IN  IF c.last_call[1].limited THEN Rejected(c)
        ELSE IF ChecksInHandler(kind) THEN c
        ELSE Answered(c, kind)

\* "if security_service.is_rate_limited(request, 'process')" in the handler
AfterHandlerCheck(st, kind, at) ==
    LET c == Checked(st, "route", "process", at)
    IN  IF c.last_call[1].limited THEN Rejected(c) ELSE Answered(c, kind)

\* The variables take the limiter of record st.
LimiterBecomes(st) ==
    /\ rate_limit_storage' = st.storage
    /\ failed_attempts' = st.failed
    /\ blocked_ips' = st.blocked
    /\ admitted' = st.admitted
    /\ called_types' = st.called_types
    /\ sent_kinds' = st.sent_kinds
    /\ sent' = st.sent
    /\ answered' = st.answered
    /\ first_rejection' = st.first_rejection
    /\ last_call' = st.last_call
    /\ call_count' = st.call_count

\* The process has started and the client has sent nothing.
LimiterInit ==
    /\ NoImageRequest
    /\ NoOperations
    /\ NoMaskPipeline

\* What no step of the limiter changes.
beside_limiter_vars ==
    <<endpoint, files, session_ok, REMBG_SESSION, task_vars, phase, limited,
      response, record_order, operation_vars, mask_vars>>

\* A request of the burst arrives: RateLimitMiddleware.dispatch
ArriveInBurst(kind) ==
    /\ steps = 0 /\ now = 0
    /\ sent < MaxBurst
    /\ sent_kinds \subseteq {kind}
    /\ in_handler = <<>>
    /\ LET st == AfterMiddleware(Limiter, kind, now)
       IN  /\ LimiterBecomes(st)
           /\ in_handler' =
                IF ChecksInHandler(kind) /\ ~st.last_call[1].limited
                THEN <<kind>>
                ELSE in_handler
    /\ UNCHANGED <<beside_limiter_vars, now, steps>>

\* A request of this kind arrives: RateLimitMiddleware.dispatch
Arrive(kind) ==
    /\ steps < MaxSteps
    /\ ChecksInHandler(kind) => Len(in_handler) < MaxInFlight
    /\ steps' = steps + 1
    /\ LET st == AfterMiddleware(Limiter, kind, now)
       IN  /\ LimiterBecomes(st)
           /\ in_handler' =
                IF ChecksInHandler(kind) /\ ~st.last_call[1].limited
                THEN Append(in_handler, kind)
                ELSE in_handler
    /\ UNCHANGED <<beside_limiter_vars, now>>

\* A request that passed the middleware reaches the check of its handler.
EnterHandler(k) ==
    /\ k \in 1..Len(in_handler)
    /\ LimiterBecomes(AfterHandlerCheck(Limiter, in_handler[k], now))
    /\ in_handler' = SubSeq(in_handler, 1, k - 1)
                        \o SubSeq(in_handler, k + 1, Len(in_handler))
    /\ UNCHANGED <<beside_limiter_vars, now, steps>>

\* A request that passed the middleware is answered before the check of its
\* handler: get_current_user refuses it, or it carries no file.
AnswerBeforeCheck(k) ==
    /\ k \in 1..Len(in_handler)
    /\ steps < MaxSteps
    /\ steps' = steps + 1
    /\ LimiterBecomes(Answered(Limiter, in_handler[k]))
    /\ in_handler' = SubSeq(in_handler, 1, k - 1)
                        \o SubSeq(in_handler, k + 1, Len(in_handler))
    /\ UNCHANGED <<beside_limiter_vars, now>>

\* time.time() and datetime.now() move on.
ClockSteps == {WindowSeconds, WindowSeconds + 1, FailedAttemptSeconds}

AdvanceClock(seconds) ==
    /\ steps < MaxSteps
    /\ steps' = steps + 1
    /\ now' = now + seconds
    /\ UNCHANGED <<beside_limiter_vars, limiter_vars, admitted, called_types,
                   sent_kinds, sent, answered, first_rejection, last_call,
                   call_count, in_handler>>

\* POST /unblock-ip for the client's address; the route works on
\* middleware.security.security_service, the middleware's instance.
UnblockIp ==
    /\ steps < MaxSteps
    /\ steps' = steps + 1
    /\ IF "middleware" \in blocked_ips
       THEN /\ blocked_ips' = blocked_ips \ {"middleware"}
            /\ last_call' = <<[op |-> "unblock_ip", status |-> 200]>>
       ELSE /\ blocked_ips' = blocked_ips
            /\ last_call' = <<[op |-> "unblock_ip", status |-> 404]>>
    /\ UNCHANGED <<beside_limiter_vars, now, rate_limit_storage,
                   failed_attempts, admitted, called_types, sent_kinds, sent,
                   answered, first_rejection, call_count, in_handler>>

LimiterNext ==
    \/ \E kind \in RequestKinds : ArriveInBurst(kind)
    \/ \E kind \in RequestKinds : Arrive(kind)
    \/ \E k \in 1..MaxInFlight + 1 : EnterHandler(k)
    \/ \E k \in 1..MaxInFlight + 1 : AnswerBeforeCheck(k)
    \/ \E seconds \in ClockSteps : AdvanceClock(seconds)
    \/ UnblockIp

LimiterSpec == LimiterInit /\ [][LimiterNext]_vars

\* --------------------------------------------------------------------- C22
EndpointTypes == {"upload", "process", "list", "detail"}

RECURSIVE SumOfAdmitted(_)
SumOfAdmitted(keys) ==
    IF keys = {} THEN 0
    ELSE LET key == CHOOSE k \in keys : TRUE
         IN  admitted[key] + SumOfAdmitted(keys \ {key})

\* The calls of these types that returned False at a time within the span
\* [from, to].
AdmittedWithin(types, from, to) ==
    SumOfAdmitted({ key \in DOMAIN admitted :
                      /\ key[1] \in types
                      /\ from <= key[2] /\ key[2] <= to })

\* C22: while every call of is_rate_limited for the client has been of one
\* endpoint type, of limit L, and the clock has not gone back, the client's
\* window holds at most L timestamps, and of the calls that returned False
\* at most L fall within any span of 60 seconds. (A span holding admitted
\* calls holds no more of them than the span that starts at its first.)
C22_SlidingWindowBound ==
    \A endpoint_type \in EndpointTypes :
        called_types = {endpoint_type} =>
            /\ Len(rate_limit_storage) <= LimitFor(endpoint_type)
            /\ \A key \in DOMAIN admitted :
                  AdmittedWithin(EndpointTypes, key[2],
                                 key[2] + WindowSeconds)
                      <= LimitFor(endpoint_type)

\* All calls were of type 'process' and filled the window at time 0; a call
\* made 60 seconds later finds those entries still in the window and
\* returns True.
C22_Witness ==
    /\ called_types = {"process"}
    /\ now = WindowSeconds
    /\ Len(rate_limit_storage) = ProcessLimit
    /\ last_call # <<>>
    /\ last_call[1].op = "is_rate_limited"
    /\ last_call[1].at = WindowSeconds
    /\ last_call[1].limited /\ ~last_call[1].blocked

\* --------------------------------------------------------------------- C23
\* `short` is what is left of `long` when entries are dropped from its front.
IsSuffix(short, long) ==
    /\ Len(short) <= Len(long)
    /\ short = SubSeq(long, Len(long) - Len(short) + 1, Len(long))

\* The step is a call of is_rate_limited.
IsCall == call_count' = call_count + 1

\* C23: a call of is_rate_limited that returns True because the limit is
\* reached adds no timestamp to the client's window (the window keeps its
\* entries, less the expired ones) and adds exactly one failed attempt, of
\* the time of the call, to those of the last hour; a call that returns
\* False adds exactly one timestamp, that of the call, at the end of the
\* window and leaves the failed attempts as they are.
C23_CallEffects ==
    [][ IsCall =>
          LET c == last_call'[1]
              n == Len(rate_limit_storage')
          IN  /\ (c.limited /\ ~c.blocked) =>
                    /\ IsSuffix(rate_limit_storage', rate_limit_storage)
                    /\ failed_attempts' =
                          Append(SelectSeq(failed_attempts,
                                           LAMBDA ts :
                                             c.at - ts < FailedAttemptSeconds),
                                 c.at)
              /\ ~c.limited =>
                    /\ n >= 1
                    /\ rate_limit_storage'[n] = c.at
                    /\ IsSuffix(SubSeq(rate_limit_storage', 1, n - 1),
                                rate_limit_storage)
                    /\ failed_attempts' = failed_attempts ]_vars

\* Fifteen batch requests were admitted, two calls each, and the sixteenth
\* is the first call to find the window full: the window holds the thirty
\* timestamps it held, and one failed attempt is recorded.
C23_Witness ==
    /\ sent_kinds = {"batch"} /\ sent = 16
    /\ answered["batch"] = 15
    /\ last_call # <<>> /\ last_call[1].op = "is_rate_limited"
    /\ last_call[1].limited /\ ~last_call[1].blocked
    /\ Len(rate_limit_storage) = ProcessLimit
    /\ failed_attempts = <<0>>

\* --------------------------------------------------------------------- C24
\* The failed attempts recorded for the client within the hour before `at`.
RecentFailedAttempts(attempts, at) ==
    Cardinality({ k \in 1..Len(attempts) :
                    at - attempts[k] < FailedAttemptSeconds })

\* C24: on either service instance, the client's address enters blocked_ips
\* only in a step that leaves more than 50 failed attempts of the last hour
\* recorded for it; a call of is_rate_limited on an instance that holds the
\* address blocked returns True and leaves the window and the failed attempts
\* as they were; and the address leaves blocked_ips of an instance only by
\* a successful unblock.
C24_Blocking ==
    [][ /\ \A instance \in Instances :
              /\ (instance \notin blocked_ips /\ instance \in blocked_ips') =>
                    /\ IsCall
                    /\ last_call'[1].instance = instance
                    /\ RecentFailedAttempts(failed_attempts', now) > 50
              /\ (instance \in blocked_ips /\ instance \notin blocked_ips') =>
                    /\ ~IsCall
                    /\ last_call' = <<[op |-> "unblock_ip", status |-> 200]>>
        /\ (IsCall /\ last_call'[1].instance \in blocked_ips) =>
              /\ last_call'[1].limited
              /\ last_call'[1].blocked
              /\ rate_limit_storage' = rate_limit_storage
              /\ failed_attempts' = failed_attempts
              /\ blocked_ips' = blocked_ips ]_vars

\* The middleware's instance blocked the address at time 0 with 51 failed
\* attempts; a request that arrives more than an hour later is still
\* refused, and the window still holds its thirty expired timestamps.
C24_Witness ==
    /\ "middleware" \in blocked_ips
    /\ Len(failed_attempts) = BlockThreshold + 1
    /\ now = FailedAttemptSeconds
    /\ last_call # <<>> /\ last_call[1].op = "is_rate_limited"
    /\ last_call[1].at = FailedAttemptSeconds
    /\ last_call[1].instance = "middleware"
    /\ last_call[1].limited /\ last_call[1].blocked
    /\ Len(rate_limit_storage) = ProcessLimit
    /\ rate_limit_storage[1] = 0

\* --------------------------------------------------------------------- C25
\* C25: for a client that sends only requests for the batch route, every
\* request that is not refused takes exactly one slot of the 'process'
\* quota, so that, while nothing has expired and no request is in flight,
\* the window holds as many timestamps as requests were admitted, and the
\* first refusal within the minute comes after 30 admitted requests.
C25_OneSlotPerBatchRequest ==
    (sent_kinds = {"batch"} /\ now <= WindowSeconds) =>
        /\ in_handler = <<>> =>
              Len(rate_limit_storage) = answered["batch"]
        /\ first_rejection # <<>> =>
              first_rejection[1]["batch"] = ProcessLimit

\* --------------------------------------------------------------------- C26
\* C26: the quotas of the endpoint types are independent: a call of
\* is_rate_limited of one type is refused for the limit only when the calls
\* of that same type admitted within the last 60 seconds have used up the
\* limit of the type, whatever the client requested of the other types; and
\* a call that is admitted leaves the type within its limit.
C26_IndependentQuotas ==
    (last_call # <<>> /\ last_call[1].op = "is_rate_limited"
        /\ last_call[1].at = now) =>
        LET c == last_call[1]
            own == AdmittedWithin({c.endpoint_type}, c.at - WindowSeconds,
                                  c.at)
        IN  /\ (c.limited /\ ~c.blocked) => own >= LimitFor(c.endpoint_type)
            /\ ~c.limited => own <= LimitFor(c.endpoint_type)

====
